---------------------------- MODULE Spec2Model ----------------------------
(***************************************************************************)
(* Model of the transaction validator (src/validate_transactions.py).      *)
(*                                                                         *)
(* main() is a straight-line batch run; the variable pc records the        *)
(* position of the run in main().  Text is modelled as a sequence of       *)
(* one-character strings so that astype(str), str.upper(), the StockCode   *)
(* regex, date parsing and the alphabetic sort of severities are computed, *)
(* not assumed.  Prices and quantities are integers (whole currency        *)
(* units); the float arithmetic of the scorer is modelled with exact       *)
(* rationals, the score being carried in tenths.                           *)
(***************************************************************************)
EXTENDS Integers, Sequences, FiniteSets

VARIABLES
    pc,          \* position in main(), or the scorer harness position
    df,          \* the transactions table (pd.DataFrame), a sequence of rows
    pm,          \* the product master table, a sequence of rows
    issues,      \* List[Issue], in append order
    ex,          \* the combined exception sample table
    issue_df,    \* the sorted issue summary written to exception_log.csv
    total_rows,  \* the total_rows argument of compute_quality_score
    score,       \* the dict returned by compute_quality_score
    written      \* names of the output files written so far

vars == <<pc, df, pm, issues, ex, issue_df, total_rows, score, written>>

-----------------------------------------------------------------------------
(* Bounds of the model *)

MaxBlocks == 2     \* blocks of rows in the transactions file
MaxPm == 2         \* rows of the product master file
Run == 51          \* length of a long block (one more than the sample cap)
MaxIssues == 2     \* scorer harness: length of the Issue list
MaxCount == 3      \* scorer harness: index bound on the row_count choices

-----------------------------------------------------------------------------
(* Text *)

Digits == <<"0", "1", "2", "3", "4", "5", "6", "7", "8", "9">>
UpperCase == <<"A", "B", "C", "D", "E", "F", "G", "H", "I", "J", "K", "L", "M",
               "N", "O", "P", "Q", "R", "S", "T", "U", "V", "W", "X", "Y", "Z">>
LowerCase == <<"a", "b", "c", "d", "e", "f", "g", "h", "i", "j", "k", "l", "m",
               "n", "o", "p", "q", "r", "s", "t", "u", "v", "w", "x", "y", "z">>
\* the characters used, in code point order
Chars == <<" ", "-", ".">> \o Digits \o UpperCase \o LowerCase

Range(s) == {s[i] : i \in DOMAIN s}
IndexOf(seq, c) == CHOOSE i \in DOMAIN seq : seq[i] = c
Ord(c) == IndexOf(Chars, c)

\* str.upper() on one character and on a string
UpperChar(c) == IF c \in Range(LowerCase) THEN UpperCase[IndexOf(LowerCase, c)] ELSE c
Upper(s) == [i \in DOMAIN s |-> UpperChar(s[i])]

\* str.strip(): drop leading and trailing blanks
RECURSIVE LStrip(_)
LStrip(s) == IF s # <<>> /\ Head(s) = " " THEN LStrip(Tail(s)) ELSE s
RECURSIVE RStrip(_)
RStrip(s) == IF s # <<>> /\ s[Len(s)] = " " THEN RStrip(SubSeq(s, 1, Len(s) - 1)) ELSE s
Strip(s) == RStrip(LStrip(s))

\* Python's < on str: lexicographic by code point
RECURSIVE StrLess(_, _)
StrLess(a, b) ==
    IF b = <<>> THEN FALSE
    ELSE IF a = <<>> THEN TRUE
    ELSE IF Head(a) # Head(b) THEN Ord(Head(a)) < Ord(Head(b))
    ELSE StrLess(Tail(a), Tail(b))

\* str(int)
RECURSIVE NatToStr(_)
NatToStr(n) == IF n < 10 THEN <<Digits[n + 1]>>
               ELSE NatToStr(n \div 10) \o <<Digits[(n % 10) + 1]>>
IntToStr(n) == IF n < 0 THEN <<"-">> \o NatToStr(-n) ELSE NatToStr(n)

\* integer literals as the CSV reader recognises them
IsNatText(s) == s # <<>> /\ \A i \in DOMAIN s : s[i] \in Range(Digits)
IsIntText(s) == IsNatText(s) \/ (s # <<>> /\ Head(s) = "-" /\ IsNatText(Tail(s)))
RECURSIVE StrToNat(_)
StrToNat(s) == IF s = <<>> THEN 0
               ELSE 10 * StrToNat(SubSeq(s, 1, Len(s) - 1)) + (IndexOf(Digits, s[Len(s)]) - 1)
StrToInt(s) == IF Head(s) = "-" THEN -StrToNat(Tail(s)) ELSE StrToNat(s)

-----------------------------------------------------------------------------
(* Cell values of a DataFrame *)

Int64(n) == [k |-> "int", n |-> n, s |-> <<>>]
Float(n) == [k |-> "float", n |-> n, s |-> <<>>]
Str(s) == [k |-> "str", n |-> 0, s |-> s]
NaN == [k |-> "null", n |-> 0, s |-> <<>>]
Timestamp(n) == [k |-> "ts", n |-> n, s |-> <<>>]

IsNa(c) == c.k = "null"
IsNumber(c) == c.k \in {"int", "float"}

\* Series.astype(str) on one cell
AsStr(c) ==
    CASE c.k = "int" -> Str(IntToStr(c.n))
      [] c.k = "float" -> Str(IntToStr(c.n) \o <<".", "0">>)
      [] c.k = "null" -> Str(<<"n", "a", "n">>)
      [] OTHER -> c


-----------------------------------------------------------------------------
(* Input files *)

SeqUpTo(S, n) == UNION {[1..k -> S] : k \in 0..n}

\* The rows a transactions file is made of (all columns but InvoiceNo, as text)
GoodRow == [StockCode |-> <<"A", "B", "1", "2">>, Description |-> <<"m", "u", "g">>, Quantity |-> <<"2">>,
            InvoiceDate |-> <<"2", "0", "2", "0", "-", "0", "1", "-", "0", "5">>, UnitPrice |-> <<"1", "0">>,
            CustomerID |-> <<"1", "7">>, Country |-> <<"U", "K">>]
OddRow == [StockCode |-> <<"a", "b", "-", "1", "2">>, Description |-> <<>>, Quantity |-> <<"-", "1">>,
           InvoiceDate |-> <<"s", "o", "o", "n">>, UnitPrice |-> <<"0">>,
           CustomerID |-> <<>>, Country |-> <<"U", "K">>]
UnmappedRow == [StockCode |-> <<"Z", "9", "9", "9">>, Description |-> <<"m", "u", "g">>, Quantity |-> <<"2">>,
                InvoiceDate |-> <<"2", "0", "2", "0", "-", "0", "1", "-", "0", "5">>, UnitPrice |-> <<"1", "0", "0", "0">>,
                CustomerID |-> <<"1", "7">>, Country |-> <<"U", "K">>]
NumericCodeRow == [StockCode |-> <<"7">>, Description |-> <<" ">>, Quantity |-> <<"2">>,
                   InvoiceDate |-> <<"2", "0", "2", "0", "-", "0", "1", "-", "0", "5">>, UnitPrice |-> <<"5", "0">>,
                   CustomerID |-> <<"1", "7">>, Country |-> <<"U", "K">>]
BadQuantityRow == [StockCode |-> <<"A", "B", "1", "2">>, Description |-> <<"m", "u", "g">>, Quantity |-> <<"a", "b", "c">>,
                   InvoiceDate |-> <<"2", "0", "2", "0", "-", "0", "1", "-", "0", "5">>, UnitPrice |-> <<"1", "0">>,
                   CustomerID |-> <<"1", "7">>, Country |-> <<"U", "K">>]
NoQuantityRow == [StockCode |-> <<"a", "b", "-", "1", "2">>, Description |-> <<"m", "u", "g">>, Quantity |-> <<>>,
                  InvoiceDate |-> <<"2", "0", "2", "0", "-", "1", "3", "-", "0", "5">>, UnitPrice |-> <<"1", "0">>,
                  CustomerID |-> <<"1", "7">>, Country |-> <<"U", "K">>]
Profiles == {GoodRow, OddRow, UnmappedRow, NumericCodeRow, BadQuantityRow,
             NoQuantityRow}
\* the profiles a long block is made of
LongProfiles == {GoodRow, UnmappedRow}

\* A block is m consecutive rows of one profile with consecutive invoice numbers
FirstInvoice == 536365
BlockRows(b) ==
    [j \in 1..b.m |-> [c \in (DOMAIN b.p) \cup {"InvoiceNo"} |->
        IF c = "InvoiceNo" THEN IntToStr(FirstInvoice + j - 1) ELSE b.p[c]]]
RECURSIVE Expand(_)
Expand(blocks) == IF blocks = <<>> THEN <<>>
                  ELSE BlockRows(Head(blocks)) \o Expand(Tail(blocks))
Blocks == [p : Profiles, m : {1}] \cup [p : LongProfiles, m : {Run}]
\* a file holds at most one long block, next to at most one other block
TransactionFiles ==
    {Expand(bs) : bs \in {x \in SeqUpTo(Blocks, MaxBlocks) :
                            \/ \A i \in DOMAIN x : x[i].m = 1
                            \/ /\ Len(x) <= 2
                               /\ Cardinality({i \in DOMAIN x : x[i].m > 1}) = 1}}

MasterRows == {[StockCode |-> <<"A", "B", "1", "2">>, UnitPrice_Ref |-> <<"1", "0">>],
               [StockCode |-> <<"7">>, UnitPrice_Ref |-> <<"1", "0">>],
               [StockCode |-> <<"A", "B", "1", "2">>, UnitPrice_Ref |-> <<>>]}
\* a master file lists a row once
MasterFiles == {f \in SeqUpTo(MasterRows, MaxPm) :
                  \A i, j \in DOMAIN f : i # j => f[i] # f[j]}

\* pd.read_csv: a column of integer literals is int64, of integer literals and
\* empty cells float64, any other column holds text; an empty cell is NaN
ColumnKind(csv, c) ==
    IF \A i \in DOMAIN csv : csv[i][c] = <<>> \/ IsIntText(csv[i][c])
    THEN IF \E i \in DOMAIN csv : csv[i][c] = <<>> THEN "float" ELSE "int"
    ELSE "object"
ReadCell(kind, text) ==
    IF text = <<>> THEN NaN
    ELSE IF kind = "int" THEN Int64(StrToInt(text))
    ELSE IF kind = "float" THEN Float(StrToInt(text))
    ELSE Str(text)
read_csv(csv) ==
    LET kind == [c \in UNION {DOMAIN csv[i] : i \in DOMAIN csv} |-> ColumnKind(csv, c)]
    IN [i \in DOMAIN csv |-> [c \in DOMAIN csv[i] |-> ReadCell(kind[c], csv[i][c])]]

-----------------------------------------------------------------------------
(* Issue list *)

HIGH == <<"H", "I", "G", "H">>
MEDIUM == <<"M", "E", "D", "I", "U", "M">>
LOW == <<"L", "O", "W">>

\* (variant: without the early return on n <= 0)
add_issue_unguarded(iss, issue_type, severity, n, owner) ==
    Append(iss, [issue_type |-> issue_type, severity |-> severity,
                 row_count |-> n, owner |-> owner])
add_issue(iss, issue_type, severity, n, owner) ==
    IF n <= 0 THEN iss
    ELSE Append(iss, [issue_type |-> issue_type, severity |-> severity,
                      row_count |-> n, owner |-> owner])

NoScore == [score |-> -1, grade |-> "", total_rows |-> 0, issue_count |-> 0]

-----------------------------------------------------------------------------
(* Schema validation, lines 22-37 and 81-95 *)

build_schema == [InvoiceNo |-> [dtype |-> "str", nullable |-> FALSE],
                 StockCode |-> [dtype |-> "str", nullable |-> FALSE],
                 Description |-> [dtype |-> "str", nullable |-> TRUE],
                 Quantity |-> [dtype |-> "float", nullable |-> FALSE],
                 InvoiceDate |-> [dtype |-> "object", nullable |-> FALSE],
                 UnitPrice |-> [dtype |-> "float", nullable |-> FALSE],
                 CustomerID |-> [dtype |-> "float", nullable |-> TRUE],
                 Country |-> [dtype |-> "str", nullable |-> FALSE]]

\* can the cell be converted to the column's dtype
Coercible(dtype, c) ==
    dtype # "float" \/ c.k # "str" \/ IsIntText(c.s)
CoerceCell(dtype, c) ==
    IF IsNa(c) THEN c
    ELSE IF dtype = "str" THEN AsStr(c)
    ELSE IF dtype = "float" THEN (IF c.k = "str" THEN Float(StrToInt(c.s)) ELSE Float(c.n))
    ELSE c
Coerce(t) ==
    [i \in DOMAIN t |-> [c \in DOMAIN t[i] |-> CoerceCell(build_schema[c].dtype, t[i][c])]]

\* the cells the schema rejects, and the columns whose coercion fails
FailingCells(t) ==
    {<<i, c>> \in (DOMAIN t) \X (DOMAIN build_schema) :
        \/ ~Coercible(build_schema[c].dtype, t[i][c])
        \/ (~build_schema[c].nullable /\ IsNa(t[i][c]))}
UncoercedColumns(t) ==
    {c \in DOMAIN build_schema : \E i \in DOMAIN t : ~Coercible(build_schema[c].dtype, t[i][c])}

\* schema.validate(df, lazy=True) raised SchemaErrors: the assignment to df did
\* not happen, so df is still the table as read.  len(e.failure_cases) is the
\* validation library's accounting: one case per rejected cell, and possibly one
\* dtype case per column that could not be coerced.
ValidateFails ==
    /\ pc = "validate"
    /\ FailingCells(df) # {}
    /\ \E n \in Cardinality(FailingCells(df)) ..
                Cardinality(FailingCells(df)) + Cardinality(UncoercedColumns(df)) :
          issues' = add_issue(issues, "SCHEMA_VALIDATION_FAILED", HIGH, n, "Reporting Owner")
    /\ pc' = "dates"
    /\ UNCHANGED <<df, pm, ex, issue_df, total_rows, score, written>>

ValidateOk ==
    /\ pc = "validate"
    /\ FailingCells(df) = {}
    /\ df' = Coerce(df)
    /\ pc' = "dates"
    /\ UNCHANGED <<pm, issues, ex, issue_df, total_rows, score, written>>

-----------------------------------------------------------------------------
(* Rule predicates, as masks over the table *)

\* mask.sum() of a boolean Series
Count(mask) == Cardinality({i \in DOMAIN mask : mask[i]})

\* pd.to_datetime(..., errors="coerce") on one cell: an ISO date becomes a
\* timestamp (carried as yyyymmdd), anything unparseable becomes NaT
DaysInMonth(y, m) ==
    IF m \in {4, 6, 9, 11} THEN 30
    ELSE IF m # 2 THEN 31
    ELSE IF (y % 4 = 0 /\ y % 100 # 0) \/ y % 400 = 0 THEN 29 ELSE 28
IsIsoDate(s) ==
    /\ Len(s) = 10
    /\ s[5] = "-" /\ s[8] = "-"
    /\ \A i \in {1, 2, 3, 4, 6, 7, 9, 10} : s[i] \in Range(Digits)
    /\ LET y == StrToNat(SubSeq(s, 1, 4))
           m == StrToNat(SubSeq(s, 6, 7))
           d == StrToNat(SubSeq(s, 9, 10))
       IN y >= 1 /\ m \in 1..12 /\ d \in 1..DaysInMonth(y, m)
to_datetime(c) ==
    IF c.k = "ts" THEN c
    ELSE IF c.k = "str" /\ IsIsoDate(c.s)
    THEN Timestamp(StrToNat(SubSeq(c.s, 1, 4)) * 10000 + StrToNat(SubSeq(c.s, 6, 7)) * 100
                   + StrToNat(SubSeq(c.s, 9, 10)))
    ELSE NaN
ParseDateColumn(t) == [i \in DOMAIN t |-> [t[i] EXCEPT !.InvoiceDate = to_datetime(@)]]

BadDate(t, i) == IsNa(t[i].InvoiceDate)
MissingCustomer(t, i) == IsNa(t[i].CustomerID)
\* df["Description"].fillna("").str.strip() == ""
EmptyDescription(t, i) ==
    Strip(IF IsNa(t[i].Description) THEN <<>> ELSE t[i].Description.s) = <<>>

\* a comparison of a text column with a number raises TypeError
IsTextColumn(t, c) == ~(\A i \in DOMAIN t : t[i][c].k # "str")
NonPositiveQuantity(t, i) == IsNumber(t[i].Quantity) /\ t[i].Quantity.n <= 0
NonPositivePrice(t, i) == IsNumber(t[i].UnitPrice) /\ t[i].UnitPrice.n <= 0

\* ~df["StockCode"].astype(str).str.match(r"^[A-Z0-9]+$")
MatchesCodePattern(s) ==
    s # <<>> /\ \A i \in DOMAIN s : s[i] \in Range(UpperCase) \cup Range(Digits)
BadCode(t, i) == ~MatchesCodePattern(AsStr(t[i].StockCode).s)

\* df.duplicated(subset=[...], keep=False): marked when an earlier or a later
\* row has the same key
DupKey(r) == <<r.InvoiceNo, r.StockCode, r.InvoiceDate>>
\* (variant: keep="first", which marks only the later copies)
DuplicatedKeepFirst(t, i) == \E j \in 1..(i - 1) : DupKey(t[j]) = DupKey(t[i])
Duplicated(t, i) ==
    \/ \E j \in 1..(i - 1) : DupKey(t[j]) = DupKey(t[i])
    \/ \E j \in (i + 1)..Len(t) : DupKey(t[j]) = DupKey(t[i])

\* pm_codes = set(pm["StockCode"].astype(str)), and the membership test
pm_codes(m) == {AsStr(m[j].StockCode).s : j \in DOMAIN m}
NotInMaster(m, t, i) == AsStr(t[i].StockCode).s \notin pm_codes(m)

\* pm_ref = pm.set_index("StockCode")["UnitPrice_Ref"].to_dict() keeps the raw
\* keys (the last row wins); df["StockCode"].map(pm_ref) looks the raw cell up
KeyEq(a, b) == \/ IsNumber(a) /\ IsNumber(b) /\ a.n = b.n
               \/ a.k = "str" /\ b.k = "str" /\ a.s = b.s
ref_price(m, t, i) ==
    LET hits == {j \in DOMAIN m : KeyEq(m[j].StockCode, t[i].StockCode)}
    IN IF hits = {} THEN NaN
       ELSE m[CHOOSE j \in hits : \A h \in hits : h <= j].UnitPrice_Ref

\* u / r < a / b and u / r > a / b for b > 0, with float division by zero
RatioLess(u, r, a, b) ==
    IF r > 0 THEN u * b < a * r
    ELSE IF r < 0 THEN u * b > a * r
    ELSE u < 0
RatioGreater(u, r, a, b) ==
    IF r > 0 THEN u * b > a * r
    ELSE IF r < 0 THEN u * b < a * r
    ELSE u > 0
\* ((price_ratio < 0.3) | (price_ratio > 3.0)).fillna(False)
OutlierOf(u, r) ==
    /\ IsNumber(u) /\ IsNumber(r)
    /\ RatioLess(u.n, r.n, 3, 10) \/ RatioGreater(u.n, r.n, 3, 1)
Outlier(m, t, i) == OutlierOf(t[i].UnitPrice, ref_price(m, t, i))

\* the boolean Series of the nine rules
InvalidDateMask(t) == [i \in DOMAIN t |-> BadDate(t, i)]
MissingCustomerMask(t) == [i \in DOMAIN t |-> MissingCustomer(t, i)]
EmptyDescriptionMask(t) == [i \in DOMAIN t |-> EmptyDescription(t, i)]
QuantityMask(t) == [i \in DOMAIN t |-> NonPositiveQuantity(t, i)]
PriceMask(t) == [i \in DOMAIN t |-> NonPositivePrice(t, i)]
BadCodeMask(t) == [i \in DOMAIN t |-> BadCode(t, i)]
DuplicateMask(t) == [i \in DOMAIN t |-> Duplicated(t, i)]
NotInMasterMask(m, t) == [i \in DOMAIN t |-> NotInMaster(m, t, i)]
OutlierMask(m, t) == [i \in DOMAIN t |-> Outlier(m, t, i)]

-----------------------------------------------------------------------------
(* compute_quality_score, lines 54-64.  score is carried in tenths. *)

Weight(sev) ==
    LET u == Upper(sev)
    IN IF u = HIGH THEN 8 ELSE IF u = MEDIUM THEN 4 ELSE IF u = LOW THEN 2 ELSE 2

Max(a, b) == IF a >= b THEN a ELSE b

\* the numerator of penalty over the denominator max(total_rows, 1)
RECURSIVE PenaltyNum(_)
PenaltyNum(iss) ==
    IF iss = <<>> THEN 0
    ELSE Weight(Head(iss).severity) * Head(iss).row_count * 100 + PenaltyNum(Tail(iss))

\* round(n / d, 0) for d > 0, ties to even
\* (variant: truncation towards minus infinity instead of rounding)
RoundTruncate(n, d) == n \div d
RoundHalfEven(n, d) ==
    LET q == n \div d
        r == n % d
    IN IF 2 * r < d THEN q
       ELSE IF 2 * r > d THEN q + 1
       ELSE IF q % 2 = 0 THEN q ELSE q + 1

Grade(s) ==
    IF s >= 950 THEN "A" ELSE IF s >= 900 THEN "B" ELSE IF s >= 800 THEN "C"
    ELSE IF s >= 700 THEN "D" ELSE "E"

\* (variants: without the clamp max(0, ...), and with abs() in its place)
ScoreUnclamped(iss, total) ==
    LET d == Max(total, 1)
    IN RoundHalfEven(1000 * d - 10 * PenaltyNum(iss), d)
ScoreMagnitude(iss, total) ==
    LET v == ScoreUnclamped(iss, total)
    IN IF v < 0 THEN -v ELSE v
ScoreTenths(iss, total) ==
    LET d == Max(total, 1)
    IN Max(0, RoundHalfEven(1000 * d - 10 * PenaltyNum(iss), d))

compute_quality_score(iss, total) ==
    [score |-> ScoreTenths(iss, total), grade |-> Grade(ScoreTenths(iss, total)),
     total_rows |-> total, issue_count |-> Len(iss)]

-----------------------------------------------------------------------------
(* The issue summary, line 224 *)

\* sort_values(["severity", "row_count"], ascending=[True, False]) is a stable
\* sort: severity as text ascending, then row_count descending
SortsBefore(iss, i, j) ==
    \/ StrLess(iss[i].severity, iss[j].severity)
    \/ /\ iss[i].severity = iss[j].severity
       /\ \/ iss[i].row_count > iss[j].row_count
          \/ iss[i].row_count = iss[j].row_count /\ i < j
sort_values(iss) ==
    [p \in DOMAIN iss |->
        iss[CHOOSE i \in DOMAIN iss :
               Cardinality({j \in DOMAIN iss : SortsBefore(iss, j, i)}) = p - 1]]

-----------------------------------------------------------------------------
(* The exception sampler, lines 196-221 *)

max_n == 50

\* DataFrame.head(n)
\* (variant: no cap)
HeadAll(rows, n) == rows
HeadN(rows, n) == SubSeq(rows, 1, IF Len(rows) < n THEN Len(rows) ELSE n)

RECURSIVE Select(_, _, _)
\* df.loc[mask]: the rows from index i on whose mask is set, in table order
Select(t, mask, i) ==
    IF i > Len(t) THEN <<>>
    ELSE (IF mask[i] THEN <<t[i]>> ELSE <<>>) \o Select(t, mask, i + 1)

sample_rows(t, mask, issue_type, severity) ==
    LET subset == HeadN(Select(t, mask, 1), max_n)
    IN [i \in DOMAIN subset |->
          [row |-> subset[i], IssueType |-> issue_type, Severity |-> severity]]

-----------------------------------------------------------------------------
(* main(), lines 97-246 *)

\* 2) Parse dates
ParseDates ==
    /\ pc = "dates"
    /\ df' = ParseDateColumn(df)
    /\ issues' = add_issue(issues, "INVALID_INVOICE_DATE", MEDIUM,
                           Count(InvalidDateMask(df')), "Data Owner")
    /\ pc' = "completeness"
    /\ UNCHANGED <<pm, ex, issue_df, total_rows, score, written>>

\* 3) Completeness
Completeness ==
    /\ pc = "completeness"
    /\ issues' = add_issue(
                   add_issue(issues, "MISSING_CUSTOMER_ID", LOW,
                             Count(MissingCustomerMask(df)), "Data Owner"),
                   "EMPTY_DESCRIPTION", LOW, Count(EmptyDescriptionMask(df)), "Data Owner")
    /\ pc' = "validity"
    /\ UNCHANGED <<df, pm, ex, issue_df, total_rows, score, written>>

\* 4) Validity checks
Validity ==
    /\ pc = "validity"
    /\ ~IsTextColumn(df, "Quantity") /\ ~IsTextColumn(df, "UnitPrice")
    /\ issues' = add_issue(
                   add_issue(
                     add_issue(issues, "NON_POSITIVE_QUANTITY", MEDIUM,
                               Count(QuantityMask(df)), "Process Owner"),
                     "NON_POSITIVE_UNIT_PRICE", HIGH,
                     Count(PriceMask(df)), "Master Data Owner"),
                   "INVALID_STOCKCODE_FORMAT", MEDIUM, Count(BadCodeMask(df)), "Master Data Owner")
    /\ pc' = "duplicates"
    /\ UNCHANGED <<df, pm, ex, issue_df, total_rows, score, written>>

\* df["Quantity"] <= 0 (line 128) or df["UnitPrice"] <= 0 (line 138) on a column
\* of text raises TypeError: the run ends there
ValidityRaises ==
    /\ pc = "validity"
    /\ (IsTextColumn(df, "Quantity") \/ IsTextColumn(df, "UnitPrice"))
    /\ issues' = IF IsTextColumn(df, "Quantity") THEN issues
                 ELSE add_issue(issues, "NON_POSITIVE_QUANTITY", MEDIUM,
                                Count(QuantityMask(df)), "Process Owner")
    /\ pc' = "aborted"
    /\ UNCHANGED <<df, pm, ex, issue_df, total_rows, score, written>>

\* 5) Duplicates
Duplicates ==
    /\ pc = "duplicates"
    /\ issues' = add_issue(issues, "DUPLICATE_LINES", MEDIUM,
                           Count(DuplicateMask(df)), "Reporting Owner")
    /\ pc' = "mapping"
    /\ UNCHANGED <<df, pm, ex, issue_df, total_rows, score, written>>

\* 6) Mapping integrity vs product master
Mapping ==
    /\ pc = "mapping"
    /\ issues' = add_issue(issues, "STOCKCODE_NOT_IN_PRODUCT_MASTER", HIGH,
                           Count(NotInMasterMask(pm, df)),
                           "Master Data Owner")
    /\ pc' = "outlier"
    /\ UNCHANGED <<df, pm, ex, issue_df, total_rows, score, written>>

\* 7) Outlier price vs reference
OutlierCheck ==
    /\ pc = "outlier"
    /\ issues' = add_issue(issues, "UNITPRICE_OUTLIER_VS_REFERENCE", LOW,
                           Count(OutlierMask(pm, df)),
                           "Finance/Reporting")
    /\ pc' = "sample"
    /\ UNCHANGED <<df, pm, ex, issue_df, total_rows, score, written>>

\* the nine sample_rows calls and pd.concat, lines 208-221
Sample ==
    /\ pc = "sample"
    /\ ex' = sample_rows(df, InvalidDateMask(df), "INVALID_INVOICE_DATE", MEDIUM)
             \o sample_rows(df, MissingCustomerMask(df), "MISSING_CUSTOMER_ID", LOW)
             \o sample_rows(df, EmptyDescriptionMask(df), "EMPTY_DESCRIPTION", LOW)
             \o sample_rows(df, QuantityMask(df), "NON_POSITIVE_QUANTITY", MEDIUM)
             \o sample_rows(df, PriceMask(df), "NON_POSITIVE_UNIT_PRICE", HIGH)
             \o sample_rows(df, BadCodeMask(df), "INVALID_STOCKCODE_FORMAT", MEDIUM)
             \o sample_rows(df, DuplicateMask(df), "DUPLICATE_LINES", MEDIUM)
             \o sample_rows(df, NotInMasterMask(pm, df),
                            "STOCKCODE_NOT_IN_PRODUCT_MASTER", HIGH)
             \o sample_rows(df, OutlierMask(pm, df),
                            "UNITPRICE_OUTLIER_VS_REFERENCE", LOW)
    /\ pc' = "summary"
    /\ UNCHANGED <<df, pm, issues, issue_df, total_rows, score, written>>

\* line 224 on a non-empty Issue list
Summarise ==
    /\ pc = "summary"
    /\ issues # <<>>
    /\ issue_df' = sort_values(issues)
    /\ pc' = "score"
    /\ UNCHANGED <<df, pm, issues, ex, total_rows, score, written>>

\* line 224 on an empty Issue list: pd.DataFrame([]) has no column "severity"
\* and sort_values raises KeyError
SummariseRaises ==
    /\ pc = "summary"
    /\ issues = <<>>
    /\ pc' = "aborted"
    /\ UNCHANGED <<df, pm, issues, ex, issue_df, total_rows, score, written>>

\* line 227
Score ==
    /\ pc = "score"
    /\ total_rows' = Len(df)
    /\ score' = compute_quality_score(issues, Len(df))
    /\ pc' = "write"
    /\ UNCHANGED <<df, pm, issues, ex, issue_df, written>>

\* lines 229-246: the KPI row and the four output files
Write ==
    /\ pc = "write"
    /\ written' = {"exception_log.csv", "exception_samples.csv", "summary_kpis.csv",
                   "data_quality_score.json"}
    /\ pc' = "done"
    /\ UNCHANGED <<df, pm, issues, ex, issue_df, total_rows, score>>

-----------------------------------------------------------------------------
(* The run of main() on every input file pair *)

Init ==
    /\ pc = "validate"
    /\ df \in {read_csv(f) : f \in TransactionFiles}
    /\ pm \in {read_csv(f) : f \in MasterFiles}
    /\ issues = <<>>
    /\ ex = <<>>
    /\ issue_df = <<>>
    /\ total_rows = 0
    /\ score = NoScore
    /\ written = {}

Next ==
    \/ ValidateFails \/ ValidateOk \/ ParseDates \/ Completeness
    \/ Validity \/ ValidityRaises \/ Duplicates \/ Mapping \/ OutlierCheck
    \/ Sample \/ Summarise \/ SummariseRaises \/ Score \/ Write

Spec == Init /\ [][Next]_vars

-----------------------------------------------------------------------------
(* compute_quality_score as a pure function of (issues, total_rows) *)

Severities == {HIGH, MEDIUM, LOW, <<"H", "i", "g", "h">>, <<"I", "N", "F", "O">>}
RowCounts == (1..MaxCount) \cup {10}
TotalRows == {0, 1, 7, 32, 100}
IssueLists ==
    SeqUpTo([issue_type : {"RULE"}, severity : Severities, row_count : RowCounts,
             owner : {"Data Owner"}], MaxIssues)

InitScorer ==
    /\ pc = "call"
    /\ issues \in IssueLists
    /\ total_rows \in TotalRows
    /\ score = NoScore
    /\ df = <<>> /\ pm = <<>> /\ ex = <<>> /\ issue_df = <<>> /\ written = {}

Call ==
    /\ pc = "call"
    /\ score' = compute_quality_score(issues, total_rows)
    /\ pc' = "returned"
    /\ UNCHANGED <<df, pm, issues, ex, issue_df, total_rows, written>>

\* the same call on the list with one issue's row_count one larger
CallLarger ==
    /\ pc = "returned"
    /\ \E i \in DOMAIN issues :
          issues' = [issues EXCEPT ![i].row_count = @ + 1]
    /\ score' = compute_quality_score(issues', total_rows)
    /\ pc' = "larger"
    /\ UNCHANGED <<df, pm, ex, issue_df, total_rows, written>>

NextScorer == Call \/ CallLarger

SpecScorer == InitScorer /\ [][NextScorer]_vars

-----------------------------------------------------------------------------
(* Properties *)

\* the rules of main(): issue type, severity and mask
Rules == {"INVALID_INVOICE_DATE", "MISSING_CUSTOMER_ID", "EMPTY_DESCRIPTION",
          "NON_POSITIVE_QUANTITY", "NON_POSITIVE_UNIT_PRICE", "INVALID_STOCKCODE_FORMAT",
          "DUPLICATE_LINES", "STOCKCODE_NOT_IN_PRODUCT_MASTER",
          "UNITPRICE_OUTLIER_VS_REFERENCE"}
RuleSeverity(r) ==
    IF r \in {"NON_POSITIVE_UNIT_PRICE", "STOCKCODE_NOT_IN_PRODUCT_MASTER"} THEN HIGH
    ELSE IF r \in {"MISSING_CUSTOMER_ID", "EMPTY_DESCRIPTION",
                   "UNITPRICE_OUTLIER_VS_REFERENCE"} THEN LOW
    ELSE MEDIUM
Violates(r, i) ==
    CASE r = "INVALID_INVOICE_DATE" -> BadDate(df, i)
      [] r = "MISSING_CUSTOMER_ID" -> MissingCustomer(df, i)
      [] r = "EMPTY_DESCRIPTION" -> EmptyDescription(df, i)
      [] r = "NON_POSITIVE_QUANTITY" -> NonPositiveQuantity(df, i)
      [] r = "NON_POSITIVE_UNIT_PRICE" -> NonPositivePrice(df, i)
      [] r = "INVALID_STOCKCODE_FORMAT" -> BadCode(df, i)
      [] r = "DUPLICATE_LINES" -> Duplicated(df, i)
      [] r = "STOCKCODE_NOT_IN_PRODUCT_MASTER" -> NotInMaster(pm, df, i)
      [] r = "UNITPRICE_OUTLIER_VS_REFERENCE" -> Outlier(pm, df, i)

HasIssue(r) == \E i \in DOMAIN issues : issues[i].issue_type = r
\* the row_count of the rule's Issue, 0 when none was emitted
CountOf(r) ==
    IF HasIssue(r) THEN issues[CHOOSE i \in DOMAIN issues : issues[i].issue_type = r].row_count
    ELSE 0

Sampled == pc \in {"summary", "score", "write", "done"}
Summarised == pc \in {"score", "write", "done"}
Scored == pc \in {"write", "done"}
Ended == pc \in {"done", "aborted"}
OutputFiles == {"exception_log.csv", "exception_samples.csv", "summary_kpis.csv",
                "data_quality_score.json"}

\* C1: the rows of exception_log.csv are ordered HIGH, then MEDIUM, then LOW,
\* and by descending row_count within one severity.
SeverityRank(s) == IF s = HIGH THEN 1 ELSE IF s = MEDIUM THEN 2 ELSE 3
C1_LogInEnumOrder ==
    Summarised =>
        \A p, q \in DOMAIN issue_df :
            p < q => \/ SeverityRank(issue_df[p].severity) < SeverityRank(issue_df[q].severity)
                     \/ /\ issue_df[p].severity = issue_df[q].severity
                        /\ issue_df[p].row_count >= issue_df[q].row_count

\* C2: a run over valid rows in which no rule finds a violating row completes and writes its
\* outputs: an empty exception log, an empty sample table, score 100.0, grade A.
C2_CleanRunWritesOutputs ==
    (Ended /\ df # <<>> /\ issues = <<>>) =>
        /\ pc = "done"
        /\ written = OutputFiles
        /\ issue_df = <<>> /\ ex = <<>>
        /\ score.score = 1000 /\ score.grade = "A"

\* C3: when schema validation reports failures, exactly one HIGH
\* SCHEMA_VALIDATION_FAILED Issue is recorded, the values that could not be
\* converted are nulled, and the run completes.
C3_SchemaFailureNeverAborts ==
    (Ended /\ HasIssue("SCHEMA_VALIDATION_FAILED")) =>
        /\ pc = "done"
        /\ Cardinality({i \in DOMAIN issues :
                          issues[i].issue_type = "SCHEMA_VALIDATION_FAILED"}) = 1
        /\ \A i \in DOMAIN issues :
              issues[i].issue_type = "SCHEMA_VALIDATION_FAILED" => issues[i].severity = HIGH
        /\ \A i \in DOMAIN df : \A c \in DOMAIN build_schema :
              Coercible(build_schema[c].dtype, df[i][c])

\* C4: every row whose reference price is unavailable is counted by the
\* mapping-integrity rule and is not counted as an outlier.
C4_NoReferenceMeansUnmapped ==
    Sampled =>
        \A i \in DOMAIN df :
            IsNa(ref_price(pm, df, i)) => NotInMaster(pm, df, i) /\ ~Outlier(pm, df, i)

\* C5: every Issue of the list has row_count >= 1, and no issue type occurs
\* twice; a rule without violating rows has no Issue.
C5_IssuesCountAtLeastOne ==
    /\ \A i \in DOMAIN issues : issues[i].row_count >= 1
    /\ \A i, j \in DOMAIN issues : issues[i].issue_type = issues[j].issue_type => i = j
    /\ Sampled => \A r \in Rules : Cardinality({i \in DOMAIN df : Violates(r, i)}) = 0
                                     => ~HasIssue(r)
C5_Witness ==
    /\ pc = "done"
    /\ Len(issues) >= 2
    /\ ~HasIssue("MISSING_CUSTOMER_ID")
    /\ \A i \in DOMAIN df : ~MissingCustomer(df, i)

\* C6: score = max(0, round(100 - penalty, 1)) with penalty the sum of
\* weight * row_count / max(total_rows, 1) * 100, weights HIGH 8, MEDIUM 4, LOW 2,
\* otherwise 2: in tenths the score is 0 when penalty >= 100 and otherwise within
\* half a tenth of 1000 - 10 * penalty; one HIGH issue of 10 rows in 100 gives 20.0.
ClaimedWeight(sev) ==
    IF sev \in {HIGH, <<"H", "i", "g", "h">>} THEN 8 ELSE IF sev = MEDIUM THEN 4 ELSE 2
RECURSIVE ClaimedPenaltyNum(_, _)
ClaimedPenaltyNum(iss, i) ==
    IF i > Len(iss) THEN 0
    ELSE ClaimedWeight(iss[i].severity) * iss[i].row_count * 100 + ClaimedPenaltyNum(iss, i + 1)
C6_ScoreFormula ==
    pc \in {"returned", "larger"} =>
        LET d == IF total_rows >= 1 THEN total_rows ELSE 1
            exact == 1000 * d - 10 * ClaimedPenaltyNum(issues, 1)
        IN /\ exact <= 0 => score.score = 0
           /\ exact > 0 => /\ 2 * (score.score * d - exact) <= d
                           /\ 2 * (exact - score.score * d) <= d
           /\ (Len(issues) = 1 /\ issues[1].severity = HIGH /\ issues[1].row_count = 10
               /\ total_rows = 100) => score.score = 200
C6_Witness ==
    /\ pc = "returned"
    /\ Len(issues) = 2
    /\ issues[1].severity = <<"I", "N", "F", "O">> /\ issues[2].severity = MEDIUM
    /\ total_rows = 7
    /\ score.score > 0 /\ score.score < 1000

\* C7: the score of a run lies in [0, 100] and the grade is the step function
\* A >= 95, B >= 90, C >= 80, D >= 70, else E of the score.
C7_ScoreRangeAndGrade ==
    Scored =>
        /\ score.score >= 0 /\ score.score <= 1000
        /\ score.grade = "A" <=> score.score >= 950
        /\ score.grade = "B" <=> (score.score >= 900 /\ score.score < 950)
        /\ score.grade = "C" <=> (score.score >= 800 /\ score.score < 900)
        /\ score.grade = "D" <=> (score.score >= 700 /\ score.score < 800)
        /\ score.grade = "E" <=> score.score < 700
C7_Witness ==
    /\ pc = "done"
    /\ score.score = 0
    /\ PenaltyNum(issues) > 100 * Len(df)

\* C8: with the same total_rows, a larger row_count of one issue never gives a
\* larger score.
C8_ScoreMonotone ==
    [][pc' = "larger" => score'.score <= score.score]_vars
C8_Witness ==
    /\ pc = "larger"
    /\ score.score > 0 /\ score.score < 900

\* C9: the row_count of DUPLICATE_LINES is the total size of the groups of two
\* or more rows sharing (InvoiceNo, StockCode, InvoiceDate), and there is no
\* such Issue when every triple is unique.
Group(i) == {j \in DOMAIN df : DupKey(df[j]) = DupKey(df[i])}
C9_DuplicateCount ==
    pc \in {"mapping", "outlier", "sample", "summary", "score", "write", "done"} =>
        /\ CountOf("DUPLICATE_LINES") =
              Cardinality(UNION {Group(i) : i \in {k \in DOMAIN df : Cardinality(Group(k)) >= 2}})
        /\ (\A i \in DOMAIN df : Cardinality(Group(i)) = 1) => ~HasIssue("DUPLICATE_LINES")
C9_Witness ==
    /\ pc = "done"
    /\ CountOf("DUPLICATE_LINES") = 2
    /\ Len(df) > 2

\* C10: for each rule the sample table holds exactly min(row_count, 50) rows
\* tagged with the rule's type and severity, and they are the first violating
\* rows in table order.
SampleOf(r) == SelectSeq(ex, LAMBDA x : x.IssueType = r)
C10_SampleSize ==
    Sampled =>
        \A r \in Rules :
            LET mask == [i \in DOMAIN df |-> Violates(r, i)]
                sample == SampleOf(r)
                \* the number of violating rows up to row i
                rank(i) == Cardinality({j \in 1..i : mask[j]})
            IN /\ Len(sample) = (IF CountOf(r) < 50 THEN CountOf(r) ELSE 50)
               /\ \A k \in DOMAIN sample : sample[k].Severity = RuleSeverity(r)
               /\ \A i \in DOMAIN df :
                     (mask[i] /\ rank(i) <= Len(sample)) => sample[rank(i)].row = df[i]
C10_Witness ==
    /\ pc = "done"
    /\ CountOf("STOCKCODE_NOT_IN_PRODUCT_MASTER") > 50
    /\ Len(SampleOf("STOCKCODE_NOT_IN_PRODUCT_MASTER")) = 50
    /\ \E k \in DOMAIN ex : \E l \in DOMAIN ex :
          ex[k].row = ex[l].row /\ ex[k].IssueType # ex[l].IssueType

=============================================================================
